---------------------------- MODULE Spec2Model ----------------------------
(***************************************************************************)
(* The life-pattern pipeline of main.py as a state machine.                *)
(*                                                                         *)
(* main() runs nine stages one after the other over one input file:        *)
(* load_data, MultiModalEmbedder.generate_embeddings,                      *)
(* ThemeClusterer.fit_predict, TemporalAnalyzer.analyze,                   *)
(* AnomalyDetector.detect, PatternDetector.detect_patterns,                *)
(* InsightGenerator.generate, Visualizer.create_all_visualizations,        *)
(* OutputGenerator.generate_output, and then writes output/results.json.   *)
(* Each stage is one action; pc is the stage main() is about to run.       *)
(*                                                                         *)
(* A text is a sequence of tokens (the words between the blanks).  A date  *)
(* string is modelled by its day of January 2024 (1 = Monday 2024-01-01).  *)
(* The three library models (the sentence encoder, KMeans and              *)
(* IsolationForest) are not part of the repository: the encoder is a fixed *)
(* function of the text, KMeans returns any labelling with labels in       *)
(* 0..k-1, IsolationForest returns any verdict and score per record.       *)
(***************************************************************************)
EXTENDS Integers, Sequences, FiniteSets, TLC

VARIABLES
    pc,             \* the stage main() runs next, or "done" / "failed"
    log,            \* the stages that have returned so far, in order
    error,          \* the stage whose exception ended the run ("" if none)
    file,           \* the entries of data/input_data.json, in file order
    n_clusters,     \* ThemeClusterer.n_clusters
    iforest,        \* what the fitted IsolationForest says of each row
    data,           \* main's `data`: the list load_data returned
    processed_data, \* main's `processed_data`: the enriched entries
    embeddings,     \* main's `embeddings`: one row per entry
    themes,         \* main's `themes`
    temporal_data,  \* main's `temporal_data`
    anomalies,      \* main's `anomalies`
    patterns,       \* main's `patterns`
    insights,       \* main's `insights`
    viz_paths,      \* main's `viz_paths`
    output,         \* main's `output`
    output_dir,     \* the files this run has written into output/
    results_file    \* what this run has written to output/results.json

vars == <<pc, log, error, file, n_clusters, iforest, data, processed_data,
          embeddings, themes, temporal_data, anomalies, patterns, insights,
          viz_paths, output, output_dir, results_file>>

-----------------------------------------------------------------------------
(* Bounds of the model *)

\* The largest number of entries in the input file.
MaxEntries == 3

\* The cluster counts ThemeClusterer is constructed with.
ClusterCounts == {1, 2}

\* A dictionary key that is not set (entry.get(key) finds nothing).
Absent == -1

-----------------------------------------------------------------------------
(* Texts *)

NoText == <<>>

\* The entries the input file is drawn from: a date string (a day of
\* January 2024; days 1, 8 and 15 are Mondays, day 7 is a Sunday) and the
\* three modalities.
SampleEntries ==
    << [date |-> 1,  text |-> NoText,       voice_transcript |-> NoText, image_caption |-> NoText],
       [date |-> 7,  text |-> <<"good">>,   voice_transcript |-> NoText, image_caption |-> NoText],
       [date |-> 7,  text |-> <<"stress">>, voice_transcript |-> NoText, image_caption |-> NoText],
       [date |-> 8,  text |-> <<"stress">>, voice_transcript |-> NoText, image_caption |-> NoText],
       [date |-> 15, text |-> <<"good">>,   voice_transcript |-> NoText, image_caption |-> NoText],
       [date |-> 8,  text |-> NoText,       voice_transcript |-> <<"good">>, image_caption |-> NoText] >>

\* str.lower() on a token.
Lower(tok) ==
    CASE tok = "Diary:" -> "diary:"
      [] tok = "Voice:" -> "voice:"
      [] tok = "Scene:" -> "scene:"
      [] OTHER -> tok

LowerText(text) == [i \in 1..Len(text) |-> Lower(text[i])]

\* The lexicon words that occur inside a token as a substring.
Subwords(tok) ==
    CASE tok = "stressed" -> {"stress"}
      [] tok = "funny" -> {"fun"}
      [] tok \in {"diary:", "voice:", "scene:"} -> {}
      [] OTHER -> {tok}

\* Python's `word in text` on a string: the word occurs somewhere in it.
Occurs(word, text) == \E i \in 1..Len(text) : word \in Subwords(text[i])

\* sum(1 for word in words if word in text)
Hits(words, text) == Cardinality({w \in words : Occurs(w, text)})

-----------------------------------------------------------------------------
(* load_data *)

\* datetime.strptime(date, '%Y-%m-%d'): days since Monday 2024-01-01.
Strptime(date) == date - 1

LoadEntry(entry) ==
    [entry_id |-> entry.entry_id, date |-> entry.date,
     date_obj |-> Strptime(entry.date),
     text |-> entry.text, voice_transcript |-> entry.voice_transcript,
     image_caption |-> entry.image_caption]

\* list.sort(key=date_obj): a stable sort, here by insertion.
RECURSIVE InsertByDate(_, _)
InsertByDate(sorted, entry) ==
    IF sorted = <<>> THEN <<entry>>
    ELSE IF sorted[Len(sorted)].date_obj <= entry.date_obj
         THEN Append(sorted, entry)
         ELSE Append(InsertByDate(SubSeq(sorted, 1, Len(sorted) - 1), entry),
                     sorted[Len(sorted)])

RECURSIVE SortByDate(_)
SortByDate(entries) ==
    IF entries = <<>> THEN <<>>
    ELSE InsertByDate(SortByDate(SubSeq(entries, 1, Len(entries) - 1)),
                      entries[Len(entries)])

\* A slip in load_data: the list is returned in file order, unsorted.
load_data_unsorted(entries) ==
    [i \in 1..Len(entries) |-> LoadEntry(entries[i])]

load_data(entries) ==
    SortByDate([i \in 1..Len(entries) |-> LoadEntry(entries[i])])

-----------------------------------------------------------------------------
(* MultiModalEmbedder *)

\* _combine_modalities: the present modalities, each behind its prefix,
\* joined by blanks.
_combine_modalities(entry) ==
    (IF entry.text # NoText THEN <<"Diary:">> \o entry.text ELSE <<>>)
    \o (IF entry.voice_transcript # NoText
        THEN <<"Voice:">> \o entry.voice_transcript ELSE <<>>)
    \o (IF entry.image_caption # NoText
        THEN <<"Scene:">> \o entry.image_caption ELSE <<>>)

\* One coordinate per token of the sample vocabulary.
TokenCode(tok) ==
    CASE tok = "good" -> 3
      [] tok = "stress" -> -3
      [] tok = "tired" -> -2
      [] tok = "recharged" -> 2
      [] OTHER -> 0

\* SentenceTransformer.encode: a fixed function of the text alone.  The
\* model has one dimension; the empty text is encoded as 0.
RECURSIVE encode(_)
encode(text) ==
    IF text = <<>> THEN 0
    ELSE TokenCode(Lower(text[1])) + encode(Tail(text))

ProcessEntry(entry) ==
    [entry_id |-> entry.entry_id, date |-> entry.date,
     date_obj |-> entry.date_obj,
     text |-> entry.text, voice_transcript |-> entry.voice_transcript,
     image_caption |-> entry.image_caption,
     combined_text |-> _combine_modalities(entry),
     embedding |-> encode(_combine_modalities(entry)),
     cluster |-> Absent, week |-> Absent]

-----------------------------------------------------------------------------
(* Sequence helpers *)

Range(seq) == {seq[i] : i \in 1..Len(seq)}

RECURSIVE SumSeq(_)
SumSeq(seq) == IF seq = <<>> THEN 0 ELSE seq[1] + SumSeq(Tail(seq))

\* seq[:n]
Prefix(seq, n) == SubSeq(seq, 1, IF n < Len(seq) THEN n ELSE Len(seq))

\* The distinct values of seq, each at its first occurrence (the key order
\* of a dict or Counter filled by one pass over seq).
RECURSIVE FirstOccurrences(_)
FirstOccurrences(seq) ==
    IF seq = <<>> THEN <<>>
    ELSE LET init == FirstOccurrences(SubSeq(seq, 1, Len(seq) - 1))
             last == seq[Len(seq)]
         IN  IF last \in Range(init) THEN init ELSE Append(init, last)

Count(seq, x) == Cardinality({i \in 1..Len(seq) : seq[i] = x})

\* sorted(items, key=lambda x: x.key): stable, ascending.  The items are
\* records with a field key.
RECURSIVE InsertByKey(_, _)
InsertByKey(sorted, x) ==
    IF sorted = <<>> THEN <<x>>
    ELSE IF sorted[Len(sorted)].key <= x.key
         THEN Append(sorted, x)
         ELSE Append(InsertByKey(SubSeq(sorted, 1, Len(sorted) - 1), x),
                     sorted[Len(sorted)])

RECURSIVE SortByKey(_)
SortByKey(seq) ==
    IF seq = <<>> THEN <<>>
    ELSE InsertByKey(SortByKey(SubSeq(seq, 1, Len(seq) - 1)), seq[Len(seq)])

\* max(keys, key=...): the first key, in the order given, with the
\* largest value; values[i] is the value of keys[i].
FirstMax(keys, values) ==
    LET best == CHOOSE i \in 1..Len(keys) :
                    /\ \A j \in 1..Len(keys) : values[j] <= values[i]
                    /\ \A j \in 1..(i - 1) : values[j] < values[i]
    IN  keys[best]

Abs(x) == IF x < 0 THEN -x ELSE x

-----------------------------------------------------------------------------
(* ThemeClusterer *)

\* A slip in ClusterIndices: labels >= cluster_id in place of ==.
ClusterIndicesFrom(labels, cluster_id) ==
    SelectSeq([i \in 1..Len(labels) |-> i], LAMBDA i : labels[i] >= cluster_id)

\* np.where(labels == cluster_id)[0]: the positions with that label,
\* ascending.
ClusterIndices(labels, cluster_id) ==
    SelectSeq([i \in 1..Len(labels) |-> i], LAMBDA i : labels[i] = cluster_id)

\* re.findall(r'\b[a-z]{4,}\b', ...) on one lower-cased token: its runs of
\* four or more letters.
WordsOf(tok) ==
    CASE tok = "diary:" -> <<"diary">>
      [] tok = "voice:" -> <<"voice">>
      [] tok = "scene:" -> <<"scene">>
      [] OTHER -> IF Len(tok) >= 4 THEN <<tok>> ELSE <<>>

RECURSIVE FindWords(_)
FindWords(text) ==
    IF text = <<>> THEN <<>> ELSE WordsOf(text[1]) \o FindWords(Tail(text))

stop_words ==
    {"the", "a", "an", "and", "or", "but", "in", "on", "at", "to",
     "for", "of", "with", "by", "from", "up", "about", "is", "was",
     "are", "were", "been", "be", "have", "has", "had", "do", "does",
     "did", "will", "would", "could", "should", "may", "might", "can",
     "diary", "voice", "scene", "this", "that", "i", "my", "me"}

\* " ".join(entry.get('combined_text', '') for entry in entries).lower()
RECURSIVE JoinTexts(_)
JoinTexts(entries) ==
    IF entries = <<>> THEN <<>>
    ELSE LowerText(entries[1].combined_text) \o JoinTexts(Tail(entries))

\* Counter(words).most_common(15): by count, largest first; words with the
\* same count stay in the order of their first occurrence.
_extract_keywords(entries) ==
    LET words  == SelectSeq(FindWords(JoinTexts(entries)),
                            LAMBDA w : w \notin stop_words)
        keys   == FirstOccurrences(words)
        ranked == SortByKey([i \in 1..Len(keys) |->
                                [key |-> 0 - Count(words, keys[i]),
                                 word |-> keys[i]]])
    IN  Prefix([i \in 1..Len(ranked) |-> ranked[i].word], 15)

\* The categories of theme_keywords, in the order the dict lists them.
theme_keywords ==
    << [theme |-> "Work Performance",
        words |-> {"work", "project", "deadline", "meeting", "team", "review",
                   "presentation", "client", "office"}],
       [theme |-> "Social Connection",
        words |-> {"friends", "family", "conversation", "together", "people",
                   "colleague", "bonding"}],
       [theme |-> "Rest & Recovery",
        words |-> {"weekend", "relax", "rest", "sleep", "tired", "recharged",
                   "break", "vacation"}],
       [theme |-> "Health & Wellness",
        words |-> {"exercise", "health", "sick", "recover", "energy",
                   "running", "wellness"}],
       [theme |-> "Personal Growth",
        words |-> {"learning", "mentor", "creative", "goal", "reflection",
                   "journey", "growth"}],
       [theme |-> "Leisure & Recreation",
        words |-> {"beach", "hiking", "music", "concert", "movie", "fun",
                   "entertainment"}] >>

\* str.title() on a keyword of the sample vocabulary.
Title(word) ==
    CASE word = "good" -> "Good"
      [] word = "great" -> "Great"
      [] word = "stress" -> "Stress"
      [] word = "stressed" -> "Stressed"
      [] word = "tired" -> "Tired"
      [] word = "worry" -> "Worry"
      [] word = "doubt" -> "Doubt"
      [] word = "recharged" -> "Recharged"
      [] word = "frustrated" -> "Frustrated"
      [] word = "suicide" -> "Suicide"
      [] word = "funny" -> "Funny"
      [] word = "weekend" -> "Weekend"
      [] OTHER -> word

\* " ".join(keywords[:2]).title()
TitleOfFirstTwo(keywords) ==
    IF Len(keywords) = 0 THEN ""
    ELSE IF Len(keywords) = 1 THEN Title(keywords[1])
    ELSE Title(keywords[1]) \o " " \o Title(keywords[2])

\* A change to _generate_theme_label: among the categories with the
\* highest score the last of theme_keywords is returned.
_generate_theme_label_last_tie(keywords) ==
    LET score(i) == Cardinality({j \in 1..Len(keywords) :
                                    keywords[j] \in theme_keywords[i].words})
        best     == CHOOSE i \in 1..Len(theme_keywords) :
                        /\ \A j \in 1..Len(theme_keywords) : score(j) <= score(i)
                        /\ \A j \in (i + 1)..Len(theme_keywords) :
                               score(j) < score(i)
    IN  IF score(best) > 0 THEN theme_keywords[best].theme
        ELSE TitleOfFirstTwo(keywords)

\* max(theme_scores, key=theme_scores.get) over the dict filled in the
\* order of theme_keywords, and the fallback on the first two keywords.
_generate_theme_label(keywords) ==
    LET score(i) == Cardinality({j \in 1..Len(keywords) :
                                    keywords[j] \in theme_keywords[i].words})
        order    == [i \in 1..Len(theme_keywords) |-> i]
        best     == FirstMax(order, [i \in 1..Len(order) |-> score(i)])
    IN  IF score(best) > 0 THEN theme_keywords[best].theme
        ELSE TitleOfFirstTwo(keywords)

\* The members of a cluster with their distance to the centroid.  KMeans
\* leaves cluster_centers_[cluster_id] at the mean of the members, sum/n;
\* the distance |embedding - sum/n| is kept as the integer |n*embedding -
\* sum|, which orders the members of one cluster the same way.
MemberDistances(emb, labels, cluster_id) ==
    LET idx == ClusterIndices(labels, cluster_id)
        sum == SumSeq([j \in 1..Len(idx) |-> emb[idx[j]]])
    IN  [j \in 1..Len(idx) |->
            [key |-> Abs(Len(idx) * emb[idx[j]] - sum), index |-> idx[j]]]

\* np.exp: ExpBelow[c] is -ln((c - 0.5) / 100) in millionths, rounded down,
\* so that exp(-x) rounds to at least c hundredths exactly when x is at
\* most ExpBelow[c] millionths.
ExpBelow ==
    <<
       5298317, 4199705, 3688879, 3352407, 3101092, 2900422,
       2733368, 2590267, 2465104, 2353878, 2253794, 2162823,
       2079441, 2002480, 1931021, 1864330, 1801809, 1742969,
       1687399, 1634755, 1584745, 1537117, 1491654, 1448169,
       1406497, 1366491, 1328025, 1290984, 1255266, 1220779,
       1187443, 1155182, 1123930, 1093624, 1064210, 1035637,
       1007857, 980829, 954511, 928869, 903868, 879476,
       855666, 832409, 809680, 787457, 765717, 744440,
       723606, 703197, 683196, 663588, 644357, 625488,
       606969, 588787, 570929, 553385, 536143, 519193,
       502526, 486133, 470003, 454130, 438504, 423120,
       407968, 393042, 378336, 363843, 349557, 335472,
       321583, 307884, 294371, 281037, 267879, 254892,
       242071, 229413, 216913, 204567, 192371, 180323,
       168418, 156653, 145025, 133531, 122167, 110931,
       99820, 88831, 77961, 67208, 56570, 46043,
       35627, 25317, 15113, 5012
    >>

\* round(np.exp(-x), 2) in hundredths, for x = num / den >= 0: ExpBelow
\* decreases, so the hundredths reached are 1 up to the result.
RoundExpNeg(num, den) ==
    Cardinality({c \in 1..Len(ExpBelow) : num * 1000000 <= den * ExpBelow[c]})

\* A slip in _calculate_confidence: exp(-avg_distance), the halving is
\* missing.
_calculate_confidence_whole_distance(emb, labels, cluster_id) ==
    LET distances == MemberDistances(emb, labels, cluster_id)
        n == Len(distances)
    IN  IF n = 0 THEN 0
        ELSE RoundExpNeg(SumSeq([j \in 1..n |-> distances[j].key]), n * n)

\* The confidence of a cluster in hundredths, as _extract_theme rounds it:
\* exp(-avg_distance / 2) over the distances of the members to their
\* centroid, and 0.0 for a cluster without members.
_calculate_confidence(emb, labels, cluster_id) ==
    LET distances == MemberDistances(emb, labels, cluster_id)
        n == Len(distances)
    IN  IF n = 0 THEN 0
        ELSE RoundExpNeg(SumSeq([j \in 1..n |-> distances[j].key]),
                         2 * n * n)

\* A slip in _extract_theme: the members are not sorted by distance, the
\* first three in list order are the representatives.
_extract_theme_unsorted(cluster_id, entries, emb, labels) ==
    LET cluster_indices == ClusterIndices(labels, cluster_id)
        cluster_entries == [j \in 1..Len(cluster_indices) |->
                               entries[cluster_indices[j]]]
        keywords        == _extract_keywords(cluster_entries)
    IN  [theme_label |-> _generate_theme_label(keywords),
         cluster_id |-> cluster_id,
         representative_entries |->
             [j \in 1..Len(Prefix(cluster_entries, 3)) |->
                 cluster_entries[j].entry_id],
         keywords |-> Prefix(keywords, 10),
         cluster_confidence |-> _calculate_confidence(emb, labels, cluster_id),
         entry_count |-> Len(cluster_entries)]

_extract_theme(cluster_id, entries, emb, labels) ==
    LET cluster_indices == ClusterIndices(labels, cluster_id)
        cluster_entries == [j \in 1..Len(cluster_indices) |->
                               entries[cluster_indices[j]]]
        sorted_indices  == Prefix(SortByKey(MemberDistances(emb, labels,
                                                            cluster_id)), 3)
        keywords        == _extract_keywords(cluster_entries)
    IN  [theme_label |-> _generate_theme_label(keywords),
         cluster_id |-> cluster_id,
         representative_entries |->
             [j \in 1..Len(sorted_indices) |->
                 entries[sorted_indices[j].index].entry_id],
         keywords |-> Prefix(keywords, 10),
         cluster_confidence |-> _calculate_confidence(emb, labels, cluster_id),
         entry_count |-> Len(cluster_entries)]

\* A change to fit_predict: the entries are regrouped by cluster as the
\* clusters are written on them.
AssignClustersGrouped(entries, labels) ==
    LET grouped == SortByKey([i \in 1..Len(entries) |->
                       [key |-> labels[i],
                        entry |-> [entries[i] EXCEPT !.cluster = labels[i]]]])
    IN  [i \in 1..Len(grouped) |-> grouped[i].entry]

\* The loop of fit_predict that writes entry['cluster'].
AssignClusters(entries, labels) ==
    [i \in 1..Len(entries) |-> [entries[i] EXCEPT !.cluster = labels[i]]]

\* The themes fit_predict returns: one for each cluster_id in
\* range(n_clusters).
ExtractThemes(k, entries, emb, labels) ==
    [c \in 1..k |-> _extract_theme(c - 1, entries, emb, labels)]

-----------------------------------------------------------------------------
(* TemporalAnalyzer *)

\* days_diff // 7 + 1 of _group_by_week.
WeekOf(entry, start_date) == (entry.date_obj - start_date) \div 7 + 1

\* A slip in _group_by_week: the week number is written under the key
\* 'cluster'.
StampWeeksOnCluster(entries) ==
    [i \in 1..Len(entries) |->
        [entries[i] EXCEPT
            !.cluster = (entries[i].date_obj - entries[1].date_obj) \div 7 + 1]]

\* The loop of _group_by_week that writes entry['week']; start_date is
\* data[0]['date_obj'].
StampWeeks(entries) ==
    [i \in 1..Len(entries) |->
        [entries[i] EXCEPT !.week = WeekOf(entries[i], entries[1].date_obj)]]

\* A slip in _group_by_week: a window for every week from 1 to the last
\* one, the weeks without records included.
_group_by_week_dense(entries) ==
    LET stamped == StampWeeks(entries)
        last    == CHOOSE w \in {stamped[i].week : i \in 1..Len(stamped)} :
                       \A i \in 1..Len(stamped) : stamped[i].week <= w
    IN  [w \in 1..last |->
            [week |-> w,
             entries |-> SelectSeq(stamped, LAMBDA e : e.week = w)]]

\* A slip in _group_by_week: an entry is appended to the window of its
\* week and of every later week.
_group_by_week_cumulative(entries) ==
    LET stamped == StampWeeks(entries)
        weeks   == FirstOccurrences([i \in 1..Len(stamped) |-> stamped[i].week])
    IN  [w \in 1..Len(weeks) |->
            [week |-> weeks[w],
             entries |-> SelectSeq(stamped, LAMBDA e : e.week <= weeks[w])]]

\* weekly_data: the week numbers in the order the loop first meets them,
\* each with its entries in list order.
_group_by_week(entries) ==
    LET stamped == StampWeeks(entries)
        weeks   == FirstOccurrences([i \in 1..Len(stamped) |-> stamped[i].week])
    IN  [w \in 1..Len(weeks) |->
            [week |-> weeks[w],
             entries |-> SelectSeq(stamped, LAMBDA e : e.week = weeks[w])]]

mood_positive_words ==
    {"good", "great", "happy", "wonderful", "amazing", "love",
     "better", "accomplished", "grateful", "fun", "excited",
     "relieved", "positive", "motivated", "confident", "inspired"}

mood_negative_words ==
    {"stress", "pressure", "anxious", "nervous", "worry", "tough",
     "exhausted", "tired", "drained", "difficult", "hard", "sick",
     "worried", "unprepared", "uncertain"}

\* sentiment = pos_count - neg_count of _calculate_mood_trend.
MoodSentiment(entry) ==
    LET text == LowerText(entry.combined_text)
    IN  Hits(mood_positive_words, text) - Hits(mood_negative_words, text)

\* A slip in _calculate_mood_trend: the guard is len(week_entries) < 1, and
\* a lone record is compared with a neutral first half.
_calculate_mood_trend_alone(week_entries) ==
    IF Len(week_entries) < 1 THEN "stable"
    ELSE LET sentiments == [i \in 1..Len(week_entries) |->
                               MoodSentiment(week_entries[i])]
             half   == Len(sentiments) \div 2
             first  == IF half = 0 THEN <<0>> ELSE SubSeq(sentiments, 1, half)
             second == SubSeq(sentiments, half + 1, Len(sentiments))
             diff2  == 2 * (SumSeq(second) * Len(first)
                            - SumSeq(first) * Len(second))
             unit   == Len(first) * Len(second)
         IN  IF diff2 > unit THEN "improving"
             ELSE IF diff2 < 0 - unit THEN "declining"
             ELSE "stable"

\* A slip in _calculate_mood_trend: the halves are cut at (len + 1) // 2,
\* so the extra record of an odd count goes to the first half.
_calculate_mood_trend_ceil(week_entries) ==
    IF Len(week_entries) < 2 THEN "stable"
    ELSE LET sentiments == [i \in 1..Len(week_entries) |->
                               MoodSentiment(week_entries[i])]
             half   == (Len(sentiments) + 1) \div 2
             first  == SubSeq(sentiments, 1, half)
             second == SubSeq(sentiments, half + 1, Len(sentiments))
             diff2  == 2 * (SumSeq(second) * Len(first)
                            - SumSeq(first) * Len(second))
             unit   == Len(first) * Len(second)
         IN  IF diff2 > unit THEN "improving"
             ELSE IF diff2 < 0 - unit THEN "declining"
             ELSE "stable"

\* diff = mean(second half) - mean(first half) against 0.5 and -0.5; both
\* sides are multiplied by 2 * len(first) * len(second) to stay in integers.
_calculate_mood_trend(week_entries) ==
    IF Len(week_entries) < 2 THEN "stable"
    ELSE LET sentiments == [i \in 1..Len(week_entries) |->
                               MoodSentiment(week_entries[i])]
             half   == Len(sentiments) \div 2
             first  == SubSeq(sentiments, 1, half)
             second == SubSeq(sentiments, half + 1, Len(sentiments))
             diff2  == 2 * (SumSeq(second) * Len(first)
                            - SumSeq(first) * Len(second))
             unit   == Len(first) * Len(second)
         IN  IF diff2 > unit THEN "improving"
             ELSE IF diff2 < 0 - unit THEN "declining"
             ELSE "stable"

_generate_micro_insight(theme_label, mood_trend) ==
    CASE mood_trend = "improving" ->
            theme_label \o " shows positive progression. Consider maintaining current strategies."
      [] mood_trend = "declining" ->
            theme_label \o " indicates increasing challenges. Consider seeking support or adjusting approach."
      [] mood_trend = "stable" ->
            theme_label \o " remains consistent. Current balance appears sustainable."
      [] OTHER -> theme_label \o " is the focus this week."

\* entry.get('cluster', 0)
ClusterOrZero(entry) == IF entry.cluster = Absent THEN 0 ELSE entry.cluster

\* A change to DominantCluster: cluster_counts is walked in the order of
\* the cluster ids, so the lowest id wins a tie.
DominantClusterLowestId(week_entries) ==
    LET clusters == [i \in 1..Len(week_entries) |-> ClusterOrZero(week_entries[i])]
        ids      == SortByKey([i \in 1..Len(FirstOccurrences(clusters)) |->
                                  [key |-> FirstOccurrences(clusters)[i]]])
    IN  FirstMax([i \in 1..Len(ids) |-> ids[i].key],
                 [i \in 1..Len(ids) |-> Count(clusters, ids[i].key)])

\* max(cluster_counts, key=cluster_counts.get): cluster_counts lists the
\* clusters in the order the week's entries first show them.
DominantCluster(week_entries) ==
    LET clusters == [i \in 1..Len(week_entries) |-> ClusterOrZero(week_entries[i])]
        keys     == FirstOccurrences(clusters)
    IN  FirstMax(keys, [i \in 1..Len(keys) |-> Count(clusters, keys[i])])

\* next((t for t in themes if t['cluster_id'] == dominant_cluster), themes[0])
DominantTheme(week_entries, thms) ==
    IF week_entries # <<>>
    THEN LET found == SelectSeq(thms, LAMBDA t :
                          t.cluster_id = DominantCluster(week_entries))
         IN  IF found # <<>> THEN found[1] ELSE thms[1]
    ELSE thms[1]

_analyze_week(week_num, week_entries, thms) ==
    LET dominant_theme == DominantTheme(week_entries, thms)
        mood_trend     == _calculate_mood_trend(week_entries)
    IN  [week |-> week_num,
         start_date |-> IF week_entries # <<>> THEN week_entries[1].date
                        ELSE Absent,
         end_date |-> IF week_entries # <<>>
                      THEN week_entries[Len(week_entries)].date ELSE Absent,
         dominant_theme |-> dominant_theme.theme_label,
         mood_trend |-> mood_trend,
         entry_count |-> Len(week_entries),
         micro_insight |-> _generate_micro_insight(dominant_theme.theme_label,
                                                   mood_trend)]

\* TemporalAnalyzer.analyze: what it returns.
analyze(entries, thms) ==
    LET weekly_data == _group_by_week(entries)
        weekly_summaries ==
            [w \in 1..Len(weekly_data) |->
                _analyze_week(weekly_data[w].week, weekly_data[w].entries, thms)]
    IN  [weekly_summaries |-> weekly_summaries,
         total_weeks |-> Len(weekly_summaries)]

\* entry.get('week', 1)
WeekOrOne(entry) == IF entry.week = Absent THEN 1 ELSE entry.week

-----------------------------------------------------------------------------
(* AnomalyDetector *)

\* What IsolationForest says of one record: fit_predict's label (-1 for an
\* outlier, 1 for an inlier) and score_samples' score, in units of 0.00001.
Inlier == [pred |-> 1, score |-> -40002]

Outlier(score) == [pred |-> -1, score |-> score]

\* round(float(score), 4), in units of 0.0001 (no sample score ends in 5).
Round4(score) == (score + 5) \div 10

\* A slip in _create_anomaly_entry: the fatigue words are looked for
\* before the stress words.
_classify_anomaly_fatigue_first(text) ==
    IF \E w \in {"sick", "tired", "exhausted", "drained"} : Occurs(w, text)
    THEN "fatigue_spike"
    ELSE IF \E w \in {"stress", "pressure", "anxious", "nervous"} : Occurs(w, text)
    THEN "stress_surge"
    ELSE IF \E w \in {"unprepared", "worry", "uncertain", "doubt"} : Occurs(w, text)
    THEN "confidence_dip"
    ELSE "emotional_spike"

_classify_anomaly(text) ==
    IF \E w \in {"stress", "pressure", "anxious", "nervous"} : Occurs(w, text)
    THEN "stress_surge"
    ELSE IF \E w \in {"sick", "tired", "exhausted", "drained"} : Occurs(w, text)
    THEN "fatigue_spike"
    ELSE IF \E w \in {"unprepared", "worry", "uncertain", "doubt"} : Occurs(w, text)
    THEN "confidence_dip"
    ELSE "emotional_spike"

_generate_anomaly_description(entry, anomaly_type) ==
    CASE anomaly_type = "stress_surge" ->
            "Elevated stress levels detected on " \o ToString(entry.date)
      [] anomaly_type = "fatigue_spike" ->
            "Significant fatigue indicators on " \o ToString(entry.date)
      [] anomaly_type = "confidence_dip" ->
            "Confidence or self-doubt concerns on " \o ToString(entry.date)
      [] anomaly_type = "emotional_spike" ->
            "Unusual emotional pattern detected on " \o ToString(entry.date)
      [] OTHER -> "Anomaly detected on " \o ToString(entry.date)

\* A change to _create_anomaly_entry: the description names the week of
\* the record as well.
_create_anomaly_entry_with_week(entry, score) ==
    LET anomaly_type == _classify_anomaly(LowerText(entry.combined_text))
    IN  [entry_id |-> entry.entry_id,
         date |-> entry.date,
         anomaly_type |-> anomaly_type,
         anomaly_score |-> Round4(score),
         description |-> _generate_anomaly_description(entry, anomaly_type)
                             \o " in week " \o ToString(WeekOrOne(entry))]

_create_anomaly_entry(entry, score) ==
    LET anomaly_type == _classify_anomaly(LowerText(entry.combined_text))
    IN  [entry_id |-> entry.entry_id,
         date |-> entry.date,
         anomaly_type |-> anomaly_type,
         anomaly_score |-> Round4(score),
         description |-> _generate_anomaly_description(entry, anomaly_type)]

\* A change to detect: a record is flagged when its score is below -0.5,
\* whatever its label.
detect_by_score(verdicts, entries) ==
    LET flagged == SelectSeq([i \in 1..Len(entries) |-> i],
                             LAMBDA i : verdicts[i].score < -50000)
        created == [j \in 1..Len(flagged) |->
                       _create_anomaly_entry(entries[flagged[j]],
                                             verdicts[flagged[j]].score)]
        sorted  == SortByKey([j \in 1..Len(created) |->
                                 [key |-> created[j].anomaly_score,
                                  anomaly |-> created[j]]])
    IN  [j \in 1..Len(sorted) |-> sorted[j].anomaly]

\* A slip in detect: the anomalies are returned in record order, the sort
\* is missing.
detect_unsorted(verdicts, entries) ==
    LET flagged == SelectSeq([i \in 1..Len(entries) |-> i],
                             LAMBDA i : verdicts[i].pred = -1)
    IN  [j \in 1..Len(flagged) |->
            _create_anomaly_entry(entries[flagged[j]],
                                  verdicts[flagged[j]].score)]

\* A change to detect: a record whose text holds a risk word is flagged
\* too, whatever the forest says.
detect_with_risk_words(verdicts, entries) ==
    LET flagged == SelectSeq([i \in 1..Len(entries) |-> i],
                             LAMBDA i :
                                 \/ verdicts[i].pred = -1
                                 \/ Occurs("suicide",
                                           LowerText(entries[i].combined_text)))
        created == [j \in 1..Len(flagged) |->
                       _create_anomaly_entry(entries[flagged[j]],
                                             verdicts[flagged[j]].score)]
        sorted  == SortByKey([j \in 1..Len(created) |->
                                 [key |-> created[j].anomaly_score,
                                  anomaly |-> created[j]]])
    IN  [j \in 1..Len(sorted) |-> sorted[j].anomaly]

\* AnomalyDetector.detect: one anomaly per record labelled -1, then
\* anomalies.sort(key=anomaly_score).
detect(verdicts, entries) ==
    LET flagged == SelectSeq([i \in 1..Len(entries) |-> i],
                             LAMBDA i : verdicts[i].pred = -1)
        created == [j \in 1..Len(flagged) |->
                       _create_anomaly_entry(entries[flagged[j]],
                                             verdicts[flagged[j]].score)]
        sorted  == SortByKey([j \in 1..Len(created) |->
                                 [key |-> created[j].anomaly_score,
                                  anomaly |-> created[j]]])
    IN  [j \in 1..Len(sorted) |-> sorted[j].anomaly]

-----------------------------------------------------------------------------
(* Fractions: <<numerator, denominator>> with a positive denominator *)

RAdd(a, b) == <<a[1] * b[2] + b[1] * a[2], a[2] * b[2]>>
RSub(a, b) == <<a[1] * b[2] - b[1] * a[2], a[2] * b[2]>>
RMul(a, b) == <<a[1] * b[1], a[2] * b[2]>>
RSign(a)   == IF a[1] > 0 THEN 1 ELSE IF a[1] < 0 THEN -1 ELSE 0
RGreater(a, b) == a[1] * b[2] > b[1] * a[2]

RECURSIVE RSum(_)
RSum(seq) == IF seq = <<>> THEN <<0, 1>> ELSE RAdd(seq[1], RSum(Tail(seq)))

\* np.mean of a non-empty list.
RMean(seq) == LET sum == RSum(seq) IN <<sum[1], sum[2] * Len(seq)>>

\* np.var: the mean of the squared distances to the mean.
RVar(seq) ==
    LET mean == RMean(seq)
    IN  RMean([i \in 1..Len(seq) |->
                  RMul(RSub(seq[i], mean), RSub(seq[i], mean))])

\* round(float(x), 2), in hundredths; a tie goes to the even neighbour.
Round2(a) ==
    LET n   == 100 * a[1]
        q   == n \div a[2]
        rem == n - q * a[2]
    IN  IF 2 * rem < a[2] THEN q
        ELSE IF 2 * rem > a[2] THEN q + 1
        ELSE IF q % 2 = 0 THEN q ELSE q + 1

-----------------------------------------------------------------------------
(* PatternDetector *)

pattern_positive_words ==
    {"good", "great", "happy", "wonderful", "amazing", "love",
     "better", "accomplished", "grateful", "fun", "excited",
     "relieved", "positive", "motivated", "confident", "inspired",
     "recharged", "energetic", "optimistic", "fulfilling", "rewarding"}

pattern_negative_words ==
    {"stress", "pressure", "anxious", "nervous", "worry", "tough",
     "exhausted", "tired", "drained", "difficult", "hard", "sick",
     "worried", "unprepared", "uncertain", "struggling", "frustrated"}

\* A change to _calculate_sentiment: the plain difference of the counts,
\* as in _calculate_mood_trend.
_calculate_sentiment_subtraction(entry) ==
    LET text      == LowerText(entry.combined_text)
        pos_count == Hits(pattern_positive_words, text)
        neg_count == Hits(pattern_negative_words, text)
    IN  <<pos_count - neg_count, 1>>

\* PatternDetector._calculate_sentiment: (pos - neg) / (pos + neg), or 0.0
\* when no lexicon word occurs.
_calculate_sentiment(entry) ==
    LET text      == LowerText(entry.combined_text)
        pos_count == Hits(pattern_positive_words, text)
        neg_count == Hits(pattern_negative_words, text)
        total     == pos_count + neg_count
    IN  IF total > 0 THEN <<pos_count - neg_count, total>> ELSE <<0, 1>>

FluctuationSentence ==
    "Sentiment shows weekly fluctuations with peaks and valleys."

GenericSentence ==
    "Weekly patterns show stress peaks early in week improving towards weekend."

\* A change to _detect_weekly_pattern: without fluctuation no cycle is
\* reported.
_detect_weekly_pattern_undetected(entries) ==
    LET weeks == FirstOccurrences([i \in 1..Len(entries) |-> WeekOrOne(entries[i])])
        week_averages ==
            [w \in 1..Len(weeks) |->
                LET members == SelectSeq(entries,
                                   LAMBDA e : WeekOrOne(e) = weeks[w])
                IN  RMean([j \in 1..Len(members) |->
                              _calculate_sentiment(members[j])])]
    IN  IF Len(week_averages) >= 3 /\ RGreater(RVar(week_averages), <<1, 2>>)
        THEN [detected |-> TRUE, description |-> FluctuationSentence]
        ELSE [detected |-> FALSE, description |-> GenericSentence]

\* A slip in _detect_weekly_pattern: two weeks are enough for the
\* variance test.
_detect_weekly_pattern_two_weeks(entries) ==
    LET weeks == FirstOccurrences([i \in 1..Len(entries) |-> WeekOrOne(entries[i])])
        week_averages ==
            [w \in 1..Len(weeks) |->
                LET members == SelectSeq(entries,
                                   LAMBDA e : WeekOrOne(e) = weeks[w])
                IN  RMean([j \in 1..Len(members) |->
                              _calculate_sentiment(members[j])])]
    IN  IF Len(week_averages) >= 2 /\ RGreater(RVar(week_averages), <<1, 2>>)
        THEN [detected |-> TRUE, description |-> FluctuationSentence]
        ELSE [detected |-> TRUE, description |-> GenericSentence]

_detect_weekly_pattern(entries) ==
    LET weeks == FirstOccurrences([i \in 1..Len(entries) |-> WeekOrOne(entries[i])])
        week_averages ==
            [w \in 1..Len(weeks) |->
                LET members == SelectSeq(entries,
                                   LAMBDA e : WeekOrOne(e) = weeks[w])
                IN  RMean([j \in 1..Len(members) |->
                              _calculate_sentiment(members[j])])]
    IN  IF Len(week_averages) >= 3 /\ RGreater(RVar(week_averages), <<1, 2>>)
        THEN [detected |-> TRUE, description |-> FluctuationSentence]
        ELSE [detected |-> TRUE, description |-> GenericSentence]

dow_names ==
    <<"Monday", "Tuesday", "Wednesday", "Thursday", "Friday", "Saturday", "Sunday">>

\* date_obj.weekday(): 0 for Monday; day 0 is Monday 2024-01-01.
Weekday(entry) == entry.date_obj % 7

\* A change to _detect_day_of_week_pattern: every weekday gets an entry,
\* a neutral one when no record falls on it.
_detect_day_of_week_pattern_all_days(entries) ==
    LET stats(d) ==
            LET members == SelectSeq(entries, LAMBDA e : Weekday(e) = d)
                avg     == IF members = <<>> THEN <<0, 1>>
                           ELSE RMean([j \in 1..Len(members) |->
                                          _calculate_sentiment(members[j])])
            IN  [average_sentiment |-> Round2(avg),
                 trend |-> IF RSign(avg) > 0 THEN "positive"
                           ELSE IF RSign(avg) < 0 THEN "negative"
                           ELSE "neutral"]
    IN  [name \in Range(dow_names) |->
            stats(CHOOSE d \in 0..6 : dow_names[d + 1] = name)]

_detect_day_of_week_pattern(entries) ==
    LET present == {Weekday(entries[i]) : i \in 1..Len(entries)}
        stats(name) ==
            LET dow     == CHOOSE d \in present : dow_names[d + 1] = name
                members == SelectSeq(entries, LAMBDA e : Weekday(e) = dow)
                avg     == RMean([j \in 1..Len(members) |->
                                     _calculate_sentiment(members[j])])
            IN  [average_sentiment |-> Round2(avg),
                 trend |-> IF RSign(avg) > 0 THEN "positive"
                           ELSE IF RSign(avg) < 0 THEN "negative"
                           ELSE "neutral"]
    IN  [name \in {dow_names[d + 1] : d \in present} |-> stats(name)]

detect_patterns(entries) ==
    LET weekly_pattern == _detect_weekly_pattern(entries)
    IN  [weekly_cycle_detected |-> weekly_pattern.detected,
         description |-> weekly_pattern.description,
         day_of_week_patterns |-> _detect_day_of_week_pattern(entries)]

-----------------------------------------------------------------------------
(* InsightGenerator, Visualizer, OutputGenerator: the collaborators that   *)
(* turn the results into text, charts and the report.  The sentences are   *)
(* kept as the facts their templates are filled from.                      *)

_generate_macro_insight(thms, tdata, anoms, pats) ==
    LET order  == [i \in 1..Len(thms) |-> i]
        trends == [w \in 1..Len(tdata.weekly_summaries) |->
                      tdata.weekly_summaries[w].mood_trend]
        seen   == FirstOccurrences(trends)
    IN  [dominant_theme |->
             thms[FirstMax(order, [i \in 1..Len(thms) |->
                                      thms[i].entry_count])].theme_label,
         dominant_trend |->
             IF trends = <<>> THEN "stable"
             ELSE FirstMax(seen, [i \in 1..Len(seen) |->
                                     Count(trends, seen[i])]),
         pattern |-> IF pats.weekly_cycle_detected THEN pats.description ELSE "",
         anomaly_count |-> Len(anoms)]

_generate_predictive_insight(tdata) ==
    LET weekly_summaries == tdata.weekly_summaries
        n                == Len(weekly_summaries)
    IN  IF n < 2
        THEN [prediction |-> "Insufficient data for reliable prediction.",
              focus |-> ""]
        ELSE LET recent == SubSeq(weekly_summaries, n - 1, n)
             IN  [prediction |->
                      IF \A i \in 1..2 : recent[i].mood_trend = "declining"
                      THEN "continued challenges"
                      ELSE IF \A i \in 1..2 : recent[i].mood_trend = "improving"
                      THEN "sustained positive trajectory"
                      ELSE "similar patterns",
                  focus |->
                      IF recent[1].dominant_theme = recent[2].dominant_theme
                      THEN recent[1].dominant_theme ELSE ""]

risk_words ==
    {"hopeless", "worthless", "give up", "can't go on", "suicide", "self-harm"}

ambiguous_words == {"uncertain", "doubt", "worried", "unprepared"}

_generate_safety_notes(entries) ==
    [high_risk_detected |->
         \E i \in 1..Len(entries) : \E w \in risk_words :
             Occurs(w, LowerText(entries[i].combined_text)),
     ambiguous_count |->
         Cardinality({i \in 1..Len(entries) : \E w \in ambiguous_words :
                         Occurs(w, LowerText(entries[i].combined_text))})]

generate(thms, tdata, anoms, pats, entries) ==
    [macro_insight |-> _generate_macro_insight(thms, tdata, anoms, pats),
     predictive_insight |-> _generate_predictive_insight(tdata),
     safety_notes |-> _generate_safety_notes(entries)]

\* The smoothing window of _create_timeline: np.convolve(..., mode='same')
\* returns max(len(sentiments), window) values, and plotting them against
\* the dates raises ValueError unless there are as many dates.
SmoothingWindow == 3

CanDrawTimeline(entries) == Len(entries) >= SmoothingWindow

VizFiles == {"timeline.png", "radar_chart.png", "motif_graph.png"}

create_all_visualizations ==
    [timeline |-> "output/timeline.png",
     radar_chart |-> "output/radar_chart.png",
     motif_graph |-> "output/motif_graph.png"]

generate_output(thms, tdata, anoms, pats, ins, paths) ==
    [themes |-> thms,
     temporal_evolution |-> tdata.weekly_summaries,
     pattern_cycles |->
         [weekly_cycle_detected |-> pats.weekly_cycle_detected,
          description |-> pats.description,
          day_of_week_patterns |-> pats.day_of_week_patterns],
     anomalies |-> anoms,
     macro_insight |-> ins.macro_insight,
     predictive_insight |-> ins.predictive_insight,
     safety_notes |-> ins.safety_notes,
     visualizations |->
         [timelines_visualization |-> paths.timeline,
          weekly_radar_chart |-> paths.radar_chart,
          motifs_graph |-> paths.motif_graph]]

-----------------------------------------------------------------------------
(* The run of main() *)

\* A result main() has not computed yet.
None == <<>>

\* The input files: up to MaxEntries of the samples, in any order and
\* with repetitions; entry_id is the place in the file.
FilesOf(samples) ==
    UNION {
        { [i \in 1..n |->
              [entry_id |-> i, date |-> samples[pick[i]].date,
               text |-> samples[pick[i]].text,
               voice_transcript |-> samples[pick[i]].voice_transcript,
               image_caption |-> samples[pick[i]].image_caption]]
          : pick \in [1..n -> 1..Len(samples)] }
        : n \in 0..MaxEntries }

\* The verdict on the record IsolationForest singles out.
SingledOut == Outlier(-60004)

\* With the default contamination of 0.1 and this few rows the forest
\* labels at most one row an outlier.
Verdicts(n) ==
    {[i \in 1..n |-> Inlier]}
    \cup {[i \in 1..n |-> IF i = o THEN SingledOut ELSE Inlier]
          : o \in 1..n}

\* KMeans.fit_predict: one label in 0..k-1 per row; rows that are equal
\* get the same label.
Labellings(emb, k) ==
    {labels \in [1..Len(emb) -> 0..(k - 1)] :
        \A i, j \in 1..Len(emb) : emb[i] = emb[j] => labels[i] = labels[j]}

\* main() starts: the input file, the configured cluster count and the
\* forest's verdicts are fixed, nothing has been computed.
NothingComputed ==
    /\ pc = "load"
    /\ log = <<>>
    /\ error = ""
    /\ data = None
    /\ processed_data = None
    /\ embeddings = None
    /\ themes = None
    /\ temporal_data = None
    /\ anomalies = None
    /\ patterns = None
    /\ insights = None
    /\ viz_paths = None
    /\ output = None
    /\ output_dir = {}
    /\ results_file = None

Init ==
    /\ file \in FilesOf(SampleEntries)
    /\ n_clusters \in ClusterCounts
    /\ iforest \in Verdicts(Len(file))
    /\ NothingComputed

\* An exception leaves main(): the traceback names the stage, nothing
\* further runs.
Raise(stage) ==
    /\ pc' = "failed"
    /\ error' = stage
    /\ UNCHANGED log

\* A stage returns and main() goes on to the next statement.
Return(stage, next) ==
    /\ pc' = next
    /\ log' = Append(log, stage)
    /\ UNCHANGED error

\* [1/9] data = load_data('data/input_data.json')
Load ==
    /\ pc = "load"
    /\ data' = load_data(file)
    /\ Return("load", "embed")
    /\ UNCHANGED <<file, n_clusters, iforest, processed_data, embeddings,
                   themes, temporal_data, anomalies, patterns, insights,
                   viz_paths, output, output_dir, results_file>>

\* A slip in main(): temporal.analyze is called right after the embeddings
\* are generated, before the clustering.
EmbedThenTemporal ==
    /\ pc = "embed"
    /\ processed_data' = [i \in 1..Len(data) |-> ProcessEntry(data[i])]
    /\ embeddings' = [i \in 1..Len(data) |-> ProcessEntry(data[i]).embedding]
    /\ Return("embed", "temporal")
    /\ UNCHANGED <<file, n_clusters, iforest, data, themes, temporal_data,
                   anomalies, patterns, insights, viz_paths, output,
                   output_dir, results_file>>

\* [2/9] embeddings, processed_data = embedder.generate_embeddings(data)
Embed ==
    /\ pc = "embed"
    /\ processed_data' = [i \in 1..Len(data) |-> ProcessEntry(data[i])]
    /\ embeddings' = [i \in 1..Len(data) |-> ProcessEntry(data[i]).embedding]
    /\ Return("embed", "cluster")
    /\ UNCHANGED <<file, n_clusters, iforest, data, themes, temporal_data,
                   anomalies, patterns, insights, viz_paths, output,
                   output_dir, results_file>>

\* The sentence encoder cannot be loaded: MultiModalEmbedder() raises.
EmbedFails ==
    /\ pc = "embed"
    /\ Raise("embed")
    /\ UNCHANGED <<file, n_clusters, iforest, data, processed_data, embeddings,
                   themes, temporal_data, anomalies, patterns, insights,
                   viz_paths, output, output_dir, results_file>>

\* [3/9] themes = clusterer.fit_predict(embeddings, processed_data).
\* KMeans raises ValueError when there are fewer rows than clusters.
Cluster ==
    /\ pc = "cluster"
    /\ IF Len(embeddings) < n_clusters
       THEN /\ Raise("cluster")
            /\ UNCHANGED <<processed_data, themes>>
       ELSE \E labels \in Labellings(embeddings, n_clusters) :
            /\ processed_data' = AssignClusters(processed_data, labels)
            /\ themes' = ExtractThemes(n_clusters, processed_data, embeddings,
                                       labels)
            /\ Return("cluster", "temporal")
    /\ UNCHANGED <<file, n_clusters, iforest, data, embeddings, temporal_data,
                   anomalies, patterns, insights, viz_paths, output,
                   output_dir, results_file>>

\* temporal.analyze(embeddings, processed_data, themes): the weeks it
\* writes on the entries and the summaries it returns.
AnalyzeEffect ==
    /\ processed_data' = StampWeeks(processed_data)
    /\ temporal_data' = analyze(processed_data, themes)

\* anomaly_det.detect(embeddings, processed_data)
DetectEffect == anomalies' = detect(iforest, processed_data)

\* pattern_det.detect_patterns(processed_data, embeddings)
DetectPatternsEffect == patterns' = detect_patterns(processed_data)

\* [4/9] temporal_data = temporal.analyze(...)
Temporal ==
    /\ pc = "temporal"
    /\ AnalyzeEffect
    /\ Return("temporal", "anomaly")
    /\ UNCHANGED <<file, n_clusters, iforest, data, embeddings, themes,
                   anomalies, patterns, insights, viz_paths, output,
                   output_dir, results_file>>

\* [5/9] anomalies = anomaly_det.detect(...)
Anomaly ==
    /\ pc = "anomaly"
    /\ DetectEffect
    /\ Return("anomaly", "pattern")
    /\ UNCHANGED <<file, n_clusters, iforest, data, processed_data, embeddings,
                   themes, temporal_data, patterns, insights, viz_paths,
                   output, output_dir, results_file>>

\* [6/9] patterns = pattern_det.detect_patterns(...)
Pattern ==
    /\ pc = "pattern"
    /\ DetectPatternsEffect
    /\ Return("pattern", "insight")
    /\ UNCHANGED <<file, n_clusters, iforest, data, processed_data, embeddings,
                   themes, temporal_data, anomalies, insights, viz_paths,
                   output, output_dir, results_file>>

\* A change to main(): what has been computed so far is written to
\* output/results.json as soon as the insights exist.
InsightThenCheckpoint ==
    /\ pc = "insight"
    /\ insights' = generate(themes, temporal_data, anomalies, patterns,
                            processed_data)
    /\ results_file' = [themes |-> themes, anomalies |-> anomalies]
    /\ output_dir' = output_dir \cup {"results.json"}
    /\ Return("insight", "visualize")
    /\ UNCHANGED <<file, n_clusters, iforest, data, processed_data, embeddings,
                   themes, temporal_data, anomalies, patterns, viz_paths,
                   output>>

\* [7/9] insights = insight_gen.generate(...)
Insight ==
    /\ pc = "insight"
    /\ insights' = generate(themes, temporal_data, anomalies, patterns,
                            processed_data)
    /\ Return("insight", "visualize")
    /\ UNCHANGED <<file, n_clusters, iforest, data, processed_data, embeddings,
                   themes, temporal_data, anomalies, patterns, viz_paths,
                   output, output_dir, results_file>>

\* [8/9] viz_paths = visualizer.create_all_visualizations(...): the
\* timeline is drawn first, and nothing is saved when it cannot be drawn.
Visualize ==
    /\ pc = "visualize"
    /\ IF CanDrawTimeline(processed_data)
       THEN /\ viz_paths' = create_all_visualizations
            /\ output_dir' = output_dir \cup VizFiles
            /\ Return("visualize", "assemble")
       ELSE /\ Raise("visualize")
            /\ UNCHANGED <<viz_paths, output_dir>>
    /\ UNCHANGED <<file, n_clusters, iforest, data, processed_data, embeddings,
                   themes, temporal_data, anomalies, patterns, insights,
                   output, results_file>>

\* [9/9] output = output_gen.generate_output(...)
Assemble ==
    /\ pc = "assemble"
    /\ output' = generate_output(themes, temporal_data, anomalies, patterns,
                                 insights, viz_paths)
    /\ Return("assemble", "save")
    /\ UNCHANGED <<file, n_clusters, iforest, data, processed_data, embeddings,
                   themes, temporal_data, anomalies, patterns, insights,
                   viz_paths, output_dir, results_file>>

\* with open('output/results.json', 'w') as f: json.dump(output, f, indent=2)
Save ==
    /\ pc = "save"
    /\ results_file' = output
    /\ output_dir' = output_dir \cup {"results.json"}
    /\ Return("save", "done")
    /\ UNCHANGED <<file, n_clusters, iforest, data, processed_data, embeddings,
                   themes, temporal_data, anomalies, patterns, insights,
                   viz_paths, output>>

\* The three analyses that follow the clustering.
Analyses == {"temporal", "anomaly", "pattern"}

\* Where a run that takes the three analyses in any order goes on after
\* one of them: to the insights once all three have run.
AfterAnalysis(stage) ==
    IF Analyses \subseteq (Range(log) \cup {stage}) THEN "insight" ELSE pc

\* The analyses of main() taken in any order (pc stays at "temporal" until
\* the three have run): each runs once, whenever it has not run yet.
TemporalAnyOrder ==
    /\ pc = "temporal"
    /\ "temporal" \notin Range(log)
    /\ AnalyzeEffect
    /\ Return("temporal", AfterAnalysis("temporal"))
    /\ UNCHANGED <<file, n_clusters, iforest, data, embeddings, themes,
                   anomalies, patterns, insights, viz_paths, output,
                   output_dir, results_file>>

AnomalyAnyOrder ==
    /\ pc = "temporal"
    /\ "anomaly" \notin Range(log)
    /\ DetectEffect
    /\ Return("anomaly", AfterAnalysis("anomaly"))
    /\ UNCHANGED <<file, n_clusters, iforest, data, processed_data, embeddings,
                   themes, temporal_data, patterns, insights, viz_paths,
                   output, output_dir, results_file>>

PatternAnyOrder ==
    /\ pc = "temporal"
    /\ "pattern" \notin Range(log)
    /\ DetectPatternsEffect
    /\ Return("pattern", AfterAnalysis("pattern"))
    /\ UNCHANGED <<file, n_clusters, iforest, data, processed_data, embeddings,
                   themes, temporal_data, anomalies, insights, viz_paths,
                   output, output_dir, results_file>>

Next ==
    \/ Load
    \/ Embed
    \/ EmbedFails
    \/ Cluster
    \/ Temporal
    \/ Anomaly
    \/ Pattern
    \/ Insight
    \/ Visualize
    \/ Assemble
    \/ Save

Spec == Init /\ [][Next]_vars

\* main() with the three analyses in any order.
NextAnyOrder ==
    \/ Load
    \/ Embed
    \/ EmbedFails
    \/ Cluster
    \/ TemporalAnyOrder
    \/ AnomalyAnyOrder
    \/ PatternAnyOrder
    \/ Insight
    \/ Visualize
    \/ Assemble
    \/ Save

SpecAnyOrder == Init /\ [][NextAnyOrder]_vars

-----------------------------------------------------------------------------
(* main() over entries that hold several trigger words, with an           *)
(* AnomalyDetector of any contamination                                    *)

\* Entries whose texts hold words of several trigger groups and lexicons.
TriggerEntries ==
    << [date |-> 3, text |-> <<"stress", "tired">>, voice_transcript |-> NoText, image_caption |-> NoText],
       [date |-> 3, text |-> <<"tired", "doubt">>,  voice_transcript |-> NoText, image_caption |-> NoText],
       [date |-> 4, text |-> <<"doubt">>,           voice_transcript |-> NoText, image_caption |-> NoText],
       [date |-> 5, text |-> <<"calm">>,            voice_transcript |-> NoText, image_caption |-> NoText] >>

\* score_samples' scores, in units of 0.00001: the first two round to the
\* same anomaly_score.
ScoreSamples == {-60004, -60001, -45003}

\* IsolationForest.offset_, which the contamination sets: fit_predict
\* labels a row -1 exactly when its score is below the offset.
Offsets == {-70000, -50000, -40000}

\* What a forest of any contamination says of n rows.
ForestVerdicts(n) ==
    {[i \in 1..n |-> [pred |-> IF scores[i] < offset THEN -1 ELSE 1,
                      score |-> scores[i]]]
        : scores \in [1..n -> ScoreSamples], offset \in Offsets}

InitAnyForest ==
    /\ file \in FilesOf(TriggerEntries)
    /\ n_clusters = 1
    /\ iforest \in ForestVerdicts(Len(file))
    /\ NothingComputed

SpecAnyForest == InitAnyForest /\ [][Next]_vars

-----------------------------------------------------------------------------
(* main() over entries that hold words of the theme categories, with      *)
(* clusters of up to four records                                          *)

\* The largest number of entries in these input files: one more than the
\* representatives a theme lists.
MaxMembers == 4

\* Entries whose texts hold words of theme_keywords: the first has two
\* categories at one keyword each, its most frequent keyword in the later
\* one; the third has a later category ahead of an earlier one.
ThemeEntries ==
    << [date |-> 1, text |-> <<"friends", "friends", "work">>, voice_transcript |-> NoText, image_caption |-> NoText],
       [date |-> 2, text |-> <<"good", "stress", "stress">>,   voice_transcript |-> NoText, image_caption |-> NoText],
       [date |-> 8, text |-> <<"tired", "weekend", "work">>,   voice_transcript |-> NoText, image_caption |-> NoText],
       [date |-> 9, text |-> <<"good">>,                       voice_transcript |-> NoText, image_caption |-> NoText] >>

\* The input files of up to MaxMembers of these entries, in any order and
\* with repetitions; entry_id is the place in the file.
ThemeFiles ==
    UNION {
        { [i \in 1..n |->
              [entry_id |-> i, date |-> ThemeEntries[pick[i]].date,
               text |-> ThemeEntries[pick[i]].text,
               voice_transcript |-> ThemeEntries[pick[i]].voice_transcript,
               image_caption |-> ThemeEntries[pick[i]].image_caption]]
          : pick \in [1..n -> 1..Len(ThemeEntries)] }
        : n \in 0..MaxMembers }

\* The forest finds no outlier in these runs.
InitThemes ==
    /\ file \in ThemeFiles
    /\ n_clusters \in ClusterCounts
    /\ iforest = [i \in 1..Len(file) |-> Inlier]
    /\ NothingComputed

SpecThemes == InitThemes /\ [][Next]_vars

-----------------------------------------------------------------------------
(* Properties *)

Ran(stage) == stage \in Range(log)

\* The records of the run, once they carry their week numbers.
Records == processed_data

Summaries == temporal_data.weekly_summaries

\* The records of one weekly window, in list order.
Window(week) == SelectSeq(Records, LAMBDA e : e.week = week)

\* C1: after ThemeClusterer.fit_predict over N records with cluster count
\* k, every record carries one cluster id in 0..k-1, exactly k themes are
\* returned with the cluster ids 0..k-1 in order, and the entry_count of the
\* themes adds up to N.
C1_ClustersPartitionRecords ==
    Ran("cluster") =>
        /\ \A i \in 1..Len(processed_data) :
               processed_data[i].cluster \in 0..(n_clusters - 1)
        /\ Len(themes) = n_clusters
        /\ \A c \in 1..Len(themes) : themes[c].cluster_id = c - 1
        /\ SumSeq([c \in 1..Len(themes) |-> themes[c].entry_count])
               = Len(processed_data)
        /\ \A c \in 1..Len(themes) :
               themes[c].entry_count
                   = Cardinality({i \in 1..Len(processed_data) :
                                     processed_data[i].cluster = c - 1})

\* Three records were clustered into two themes, neither of them empty.
C1_Witness ==
    /\ Ran("cluster")
    /\ n_clusters = 2
    /\ Len(processed_data) = 3
    /\ \A c \in 1..Len(themes) : themes[c].entry_count > 0

\* The earliest date among the records of the input.
EarliestDate ==
    CHOOSE d \in {Strptime(file[i].date) : i \in 1..Len(file)} :
        \A i \in 1..Len(file) : d <= Strptime(file[i].date)

\* C2: the week number written on each record is
\* floor((date - earliest date of all records) / 7) + 1, and the records
\* that share a week number make up one window, in date order: its summary
\* counts them all and starts and ends at their first and last date.
C2_WeekNumbers ==
    Ran("temporal") =>
        /\ \A i \in 1..Len(Records) :
               Records[i].week
                   = (Records[i].date_obj - EarliestDate) \div 7 + 1
        /\ \A i \in 1..Len(Records) :
               \E w \in 1..Len(Summaries) :
                   LET window == Window(Records[i].week)
                   IN  /\ Summaries[w].week = Records[i].week
                       /\ Summaries[w].entry_count = Len(window)
                       /\ Summaries[w].start_date = window[1].date
                       /\ Summaries[w].end_date = window[Len(window)].date
                       /\ \A a, b \in 1..Len(window) :
                              a < b => window[a].date_obj <= window[b].date_obj

\* The file was not in date order, and its records fall into two weeks at
\* least, one of them holding several records.
C2_Witness ==
    /\ Ran("temporal")
    /\ \E i, j \in 1..Len(file) : i < j /\ file[i].date > file[j].date
    /\ \E i, j \in 1..Len(Records) :
           i # j /\ Records[i].week = Records[j].week
    /\ \E i \in 1..Len(Records) : Records[i].week = 2 /\ Records[i].date = 8

\* C3: analyze returns one WeeklySummary for each week number some record
\* carries and for no other, in ascending order of the week number, and no
\* summary has entry_count 0.
C3_OneSummaryPerWeek ==
    Ran("temporal") =>
        /\ {Summaries[w].week : w \in 1..Len(Summaries)}
               = {Records[i].week : i \in 1..Len(Records)}
        /\ \A a, b \in 1..Len(Summaries) :
               a < b => Summaries[a].week < Summaries[b].week
        /\ \A w \in 1..Len(Summaries) : Summaries[w].entry_count > 0
        /\ temporal_data.total_weeks = Len(Summaries)

\* Weeks 1 and 3 hold records and week 2 holds none: two summaries.
C3_Witness ==
    /\ Ran("temporal")
    /\ Len(Summaries) = 2
    /\ Summaries[1].week = 1
    /\ Summaries[2].week = 3

\* C4: a weekly window of fewer than 2 records has mood_trend 'stable',
\* whatever the text of its record.
C4_SingleRecordStable ==
    Ran("temporal") =>
        \A w \in 1..Len(Summaries) :
            Summaries[w].entry_count < 2 => Summaries[w].mood_trend = "stable"

\* A window of one record whose text scores above zero, and a window of
\* one record whose text scores below zero.
C4_Witness ==
    /\ Ran("temporal")
    /\ \E w \in 1..Len(Summaries) :
           /\ Summaries[w].entry_count = 1
           /\ MoodSentiment(Window(Summaries[w].week)[1]) > 0
    /\ \E w \in 1..Len(Summaries) :
           /\ Summaries[w].entry_count = 1
           /\ MoodSentiment(Window(Summaries[w].week)[1]) < 0

\* The sum of the sentiments of the records of a window at the places from
\* lo to hi.
SentimentSum(window, lo, hi) ==
    SumSeq([i \in 1..(hi - lo + 1) |-> MoodSentiment(window[lo + i - 1])])

\* mean(second half) - mean(first half) of a window of n >= 2 records, times
\* 2 * h * (n - h), where the first half is the first h = floor(n/2) records.
TwiceDiff(window) ==
    LET n == Len(window)
        h == n \div 2
    IN  2 * (h * SentimentSum(window, h + 1, n)
             - (n - h) * SentimentSum(window, 1, h))

\* 1 (the two halves' unit), times 2 * h * (n - h) / 2: what 0.5 becomes.
HalfUnit(window) == (Len(window) \div 2) * (Len(window) - Len(window) \div 2)

\* C5: for a window of n >= 2 records the trend compares the mean
\* sentiment of the first floor(n/2) records with that of the others: more
\* than 0.5 up is 'improving', more than 0.5 down is 'declining', anything
\* else, a difference of exactly 0.5 or -0.5 included, is 'stable'.
C5_MoodTrendByHalves ==
    Ran("temporal") =>
        \A w \in 1..Len(Summaries) :
            LET window == Window(Summaries[w].week)
                diff   == TwiceDiff(window)
            IN  Len(window) >= 2 =>
                    Summaries[w].mood_trend
                        = IF diff > HalfUnit(window)
                          THEN "improving"
                          ELSE IF diff < 0 - HalfUnit(window)
                          THEN "declining"
                          ELSE "stable"

\* A window of three records whose halves differ by exactly 0.5.
C5_Witness ==
    /\ Ran("temporal")
    /\ \E w \in 1..Len(Summaries) :
           LET window == Window(Summaries[w].week)
           IN  /\ Len(window) = 3
               /\ TwiceDiff(window) = HalfUnit(window)
               /\ Summaries[w].mood_trend = "stable"

\* The number of records of a window in a cluster.
CountIn(window, cluster) ==
    Cardinality({i \in 1..Len(window) : window[i].cluster = cluster})

\* The clusters with the most records in a window.
Leaders(window) ==
    {c \in 0..(n_clusters - 1) :
        \A d \in 0..(n_clusters - 1) : CountIn(window, d) <= CountIn(window, c)}

\* The place of a cluster's first record in a window.
FirstPlace(window, cluster) ==
    CHOOSE i \in 1..Len(window) :
        /\ window[i].cluster = cluster
        /\ \A j \in 1..(i - 1) : window[j].cluster # cluster

\* C6 as claimed: the dominant theme of a window is the theme of the
\* cluster with the most records in it, and of the one with the lowest
\* cluster_id when several clusters have the most.
C6_TieToLowestClusterId ==
    Ran("temporal") =>
        \A w \in 1..Len(Summaries) :
            LET window == Window(Summaries[w].week)
                lowest == CHOOSE c \in Leaders(window) :
                              \A d \in Leaders(window) : c <= d
            IN  Summaries[w].dominant_theme = themes[lowest + 1].theme_label

\* C6 as amended: the dominant theme of a window is the theme of the
\* cluster with the most records in it, and when several clusters have the
\* most, of the one whose first record comes earliest in the window.
C6_TieToEarliestCluster ==
    Ran("temporal") =>
        \A w \in 1..Len(Summaries) :
            LET window   == Window(Summaries[w].week)
                earliest == CHOOSE c \in Leaders(window) :
                                \A d \in Leaders(window) :
                                    FirstPlace(window, c) <= FirstPlace(window, d)
            IN  Summaries[w].dominant_theme = themes[earliest + 1].theme_label

\* A window where clusters 0 and 1 tie, cluster 1 comes first, and the two
\* themes have different labels.
C6_Witness ==
    /\ Ran("temporal")
    /\ n_clusters = 2
    /\ themes[1].theme_label # themes[2].theme_label
    /\ \E w \in 1..Len(Summaries) :
           LET window == Window(Summaries[w].week)
           IN  /\ Leaders(window) = {0, 1}
               /\ window[1].cluster = 1
               /\ Summaries[w].dominant_theme = themes[2].theme_label

\* What the three analyses return when they run in the order of main():
\* analyze first, which writes the week numbers, then detect, then
\* detect_patterns.
MainOrderTemporal == analyze(processed_data, themes)

MainOrderAnomalies == detect(iforest, StampWeeks(processed_data))

MainOrderPatterns == detect_patterns(StampWeeks(processed_data))

AnalysesDone == \A stage \in Analyses : Ran(stage)

\* The place of a stage in the log.
PlaceInLog(stage) == CHOOSE i \in 1..Len(log) : log[i] = stage

\* C7 as claimed: run in any order, the three analyses yield the weekly
\* summaries, the anomalies and the pattern report of main()'s order.
C7_AnyOrderSameResults ==
    AnalysesDone =>
        /\ temporal_data = MainOrderTemporal
        /\ anomalies = MainOrderAnomalies
        /\ patterns = MainOrderPatterns

\* C7 as amended: in any order analyze and detect yield the weekly
\* summaries and the anomalies of main()'s order, and detect_patterns its
\* day-of-week patterns and its flag; the description is that of main()'s
\* order when detect_patterns runs after analyze, and the generic sentence
\* when it runs before, whatever the weeks of the records.
C7_AnyOrderButTheDescription ==
    AnalysesDone =>
        LET report == MainOrderPatterns
        IN  /\ temporal_data = MainOrderTemporal
            /\ anomalies = MainOrderAnomalies
            /\ patterns.day_of_week_patterns = report.day_of_week_patterns
            /\ patterns.weekly_cycle_detected = report.weekly_cycle_detected
            /\ PlaceInLog("temporal") < PlaceInLog("pattern")
                   => patterns = report
            /\ PlaceInLog("pattern") < PlaceInLog("temporal")
                   => patterns.description = GenericSentence

\* detect_patterns ran before analyze over records of three weeks whose
\* averages fluctuate, with one anomaly found: the description differs from
\* that of main()'s order.
C7_Witness ==
    /\ AnalysesDone
    /\ PlaceInLog("pattern") < PlaceInLog("anomaly")
    /\ PlaceInLog("anomaly") < PlaceInLog("temporal")
    /\ Len(anomalies) = 1
    /\ MainOrderPatterns.description = FluctuationSentence
    /\ patterns.description = GenericSentence

\* The dataset is empty, or the cluster count is at least the number of
\* records.
BadInput == Len(file) = 0 \/ n_clusters >= Len(file)

\* C8: on an empty dataset, or a cluster count greater than or equal to
\* the number of records, the run aborts before any stage, the Vectorizer
\* included, executes: nothing but the loading ever returns.
C8_AbortBeforeAnyStage ==
    BadInput => Range(log) \subseteq {"load"} /\ pc # "done"

\* The nine stages of main(), in its order, and the writing of the file.
AllStages ==
    <<"load", "embed", "cluster", "temporal", "anomaly", "pattern",
      "insight", "visualize", "assemble">>

StageOrder == AllStages \o <<"save", "done">>

\* C9: output/results.json is written only after every stage has
\* completed, and it is the assembled report; a run that failed in a stage
\* has written no results file.
C9_NoPartialResults ==
    /\ (results_file # None \/ "results.json" \in output_dir) =>
           /\ \A i \in 1..Len(AllStages) : Ran(AllStages[i])
           /\ results_file = output
    /\ pc = "failed" =>
           /\ results_file = None
           /\ "results.json" \notin output_dir

\* The run failed in the visualizer, with themes, summaries and insights
\* computed, and left no results file.
C9_Witness ==
    /\ pc = "failed"
    /\ error = "visualize"
    /\ insights # None
    /\ results_file = None

\* C10: the stages run one at a time in the order of main(): what has
\* returned so far is a prefix of that order and the run stands at the
\* stage after it; once the Vectorizer has returned there is one embedding
\* per record, no later stage starts without them, and TemporalAnalyzer
\* starts only when every record has its cluster.
C10_StagesInOrder ==
    /\ Len(log) < Len(StageOrder)
    /\ \A i \in 1..Len(log) : log[i] = StageOrder[i]
    /\ pc # "failed" => pc = StageOrder[Len(log) + 1]
    /\ (\E i \in 3..Len(StageOrder) : pc = StageOrder[i] \/ Ran(StageOrder[i])) =>
           /\ Ran("embed")
           /\ Len(embeddings) = Len(data)
           /\ Len(processed_data) = Len(data)
    /\ (pc = "temporal" \/ Ran("temporal")) =>
           /\ Ran("cluster")
           /\ \A i \in 1..Len(processed_data) :
                  processed_data[i].cluster # Absent
    /\ (pc = "anomaly" \/ Ran("anomaly")) => Ran("temporal")
    /\ (pc = "pattern" \/ Ran("pattern")) => Ran("anomaly")

\* PatternDetector is about to start over three clustered records.
C10_Witness ==
    /\ pc = "pattern"
    /\ Len(processed_data) = 3
    /\ log = <<"load", "embed", "cluster", "temporal", "anomaly">>

\* The rows of the embedding matrix the forest labels as outliers.
OutlierRows == {i \in 1..Len(iforest) : iforest[i].pred = -1}

\* The anomalies reported for the record of a row.
AnomaliesOf(i) ==
    {j \in 1..Len(anomalies) : anomalies[j].entry_id = Records[i].entry_id}

\* C11: detect returns exactly one anomaly for each record the forest
\* labels -1 and none for a record it labels 1, whatever the scores are.
C11_OneAnomalyPerOutlier ==
    Ran("anomaly") =>
        /\ \A i \in 1..Len(Records) :
               Cardinality(AnomaliesOf(i)) = IF i \in OutlierRows THEN 1 ELSE 0
        /\ Len(anomalies) = Cardinality(OutlierRows)

\* Of three records the forest labels two as outliers and one as inlier:
\* two anomalies are reported.
C11_Witness ==
    /\ Ran("anomaly")
    /\ Len(Records) = 3
    /\ Cardinality(OutlierRows) = 2
    /\ Len(anomalies) = 2

\* C12: the anomalies are listed by non-decreasing anomaly_score, the
\* most anomalous first, so that no anomaly of a prefix has a higher score
\* than one after it; the anomaly_score is the score of the record rounded
\* to four decimals.
C12_SortedByScore ==
    Ran("anomaly") =>
        /\ \A n \in 0..Len(anomalies) :
               \A j \in 1..n : \A k \in (n + 1)..Len(anomalies) :
                   anomalies[j].anomaly_score <= anomalies[k].anomaly_score
        /\ \A i \in OutlierRows : \A j \in AnomaliesOf(i) :
               /\ 10 * anomalies[j].anomaly_score - iforest[i].score <= 5
               /\ iforest[i].score - 10 * anomalies[j].anomaly_score <= 5

\* The most anomalous record comes later in the file than a less anomalous
\* one and is listed first.
C12_Witness ==
    /\ Ran("anomaly")
    /\ Len(anomalies) >= 2
    /\ anomalies[1].anomaly_score < anomalies[2].anomaly_score
    /\ anomalies[1].entry_id > anomalies[2].entry_id
    /\ Records[1].entry_id < Records[2].entry_id

\* The trigger groups of _create_anomaly_entry.
StressWords == {"stress", "pressure", "anxious", "nervous"}

FatigueWords == {"sick", "tired", "exhausted", "drained"}

DoubtWords == {"unprepared", "worry", "uncertain", "doubt"}

\* The lower-cased combined text of the record of a row holds a word of
\* the group.
HasAny(words, i) ==
    \E w \in words : Occurs(w, LowerText(Records[i].combined_text))

\* C13: the anomaly_type of a flagged record is that of the first trigger
\* group, in the order stress, fatigue, doubt, of which its text holds a
\* word, and 'emotional_spike' when it holds none; a stress word gives
\* 'stress_surge' even next to fatigue or doubt words.
C13_FirstTriggerGroupWins ==
    Ran("anomaly") =>
        \A i \in OutlierRows : \A j \in AnomaliesOf(i) :
            /\ HasAny(StressWords, i) => anomalies[j].anomaly_type = "stress_surge"
            /\ (~HasAny(StressWords, i) /\ HasAny(FatigueWords, i))
                   => anomalies[j].anomaly_type = "fatigue_spike"
            /\ (~HasAny(StressWords, i) /\ ~HasAny(FatigueWords, i)
                    /\ HasAny(DoubtWords, i))
                   => anomalies[j].anomaly_type = "confidence_dip"
            /\ (~HasAny(StressWords, i) /\ ~HasAny(FatigueWords, i)
                    /\ ~HasAny(DoubtWords, i))
                   => anomalies[j].anomaly_type = "emotional_spike"

\* A flagged record whose text holds a stress word and a fatigue word is a
\* stress_surge, and another whose text holds a fatigue word and a doubt
\* word is a fatigue_spike.
C13_Witness ==
    /\ Ran("anomaly")
    /\ \E i \in OutlierRows : \E j \in AnomaliesOf(i) :
           /\ HasAny(StressWords, i)
           /\ HasAny(FatigueWords, i)
           /\ anomalies[j].anomaly_type = "stress_surge"
    /\ \E i \in OutlierRows : \E j \in AnomaliesOf(i) :
           /\ HasAny(FatigueWords, i)
           /\ HasAny(DoubtWords, i)
           /\ anomalies[j].anomaly_type = "fatigue_spike"

\* Texts the records of another run may hold in place of theirs.
OtherTexts == {<<>>, <<"Diary:", "suicide">>, <<"Diary:", "stress">>}

\* The records of a run over the same embedding matrix with other texts.
WithTexts(texts) ==
    [i \in 1..Len(Records) |-> [Records[i] EXCEPT !.combined_text = texts[i]]]

\* Which records a list of anomalies flags, in its order, with their dates
\* and scores.
Flags(anoms) ==
    [j \in 1..Len(anoms) |->
        <<anoms[j].entry_id, anoms[j].date, anoms[j].anomaly_score>>]

\* C14: which records detect flags, and with which scores, depends on the
\* embedding matrix alone: a run over the same embeddings with any other
\* combined texts, a risk word included, flags the same records with the
\* same scores in the same order.
C14_FlagsIgnoreText ==
    Ran("anomaly") =>
        \A texts \in [1..Len(Records) -> OtherTexts] :
            Flags(detect(iforest, WithTexts(texts))) = Flags(anomalies)

\* One record is flagged and another is not; with other texts, the word
\* 'suicide' on the unflagged record, the run reports another anomaly_type
\* for the same flagged record.
C14_Witness ==
    /\ Ran("anomaly")
    /\ Len(anomalies) >= 1
    /\ \E i \in 1..Len(Records) : \E texts \in [1..Len(Records) -> OtherTexts] :
           /\ i \notin OutlierRows
           /\ texts[i] = <<"Diary:", "suicide">>
           /\ detect(iforest, WithTexts(texts)) # anomalies
           /\ Flags(detect(iforest, WithTexts(texts))) = Flags(anomalies)

\* The week numbers on the records.
WeekNumbers == {Records[i].week : i \in 1..Len(Records)}

\* C15: detect_patterns reports weekly_cycle_detected = true for every
\* input, whatever the number of weeks and the variance of their averages.
C15_CycleAlwaysDetected ==
    Ran("pattern") => patterns.weekly_cycle_detected = TRUE

\* The records lie in one week, the description is the generic sentence,
\* and a cycle is reported.
C15_Witness ==
    /\ Ran("pattern")
    /\ Cardinality(WeekNumbers) = 1
    /\ patterns.description = GenericSentence
    /\ patterns.weekly_cycle_detected = TRUE

\* The words that occur in the lower-cased combined text of the record of
\* a row, and how many positive and negative lexicon words of
\* PatternDetector are among them.
WordsFound(i) ==
    UNION {Subwords(Lower(Records[i].combined_text[k]))
              : k \in 1..Len(Records[i].combined_text)}

PosFound(i) == Cardinality(pattern_positive_words \cap WordsFound(i))

NegFound(i) == Cardinality(pattern_negative_words \cap WordsFound(i))

\* The sentiment of PatternDetector for the record of a row, as a
\* fraction: the difference of the counts over their sum, 0 when no
\* lexicon word is found.
Proxy(i) ==
    LET pos == PosFound(i)
        neg == NegFound(i)
    IN  IF pos + neg > 0 THEN <<pos - neg, pos + neg>> ELSE <<0, 1>>

\* The rows of a week and the average sentiment of the week.
RowsOfWeek(w) == SelectSeq([i \in 1..Len(Records) |-> i],
                           LAMBDA i : Records[i].week = w)

WeekAverage(w) ==
    LET rows == RowsOfWeek(w)
    IN  RMean([j \in 1..Len(rows) |-> Proxy(rows[j])])

\* The population variance of the weekly averages, as the mean of the
\* squares minus the square of the mean.
VarianceOfWeeks ==
    LET weeks    == FirstOccurrences([i \in 1..Len(Records) |-> Records[i].week])
        averages == [w \in 1..Len(weeks) |-> WeekAverage(weeks[w])]
        mean     == RMean(averages)
    IN  RSub(RMean([w \in 1..Len(averages) |-> RMul(averages[w], averages[w])]),
             RMul(mean, mean))

\* C16: the description is the fluctuation sentence exactly when the
\* records span at least 3 week numbers and the population variance of the
\* weekly average sentiments is strictly above 0.5, and the generic
\* sentence otherwise.
C16_FluctuationByVariance ==
    Ran("pattern") =>
        IF Cardinality(WeekNumbers) >= 3
        THEN IF RGreater(VarianceOfWeeks, <<1, 2>>)
             THEN patterns.description = FluctuationSentence
             ELSE patterns.description = GenericSentence
        ELSE patterns.description = GenericSentence

\* Three weeks whose averages vary by more than 0.5: the fluctuation
\* sentence.
C16_Witness ==
    /\ Ran("pattern")
    /\ Cardinality(WeekNumbers) = 3
    /\ RGreater(VarianceOfWeeks, <<1, 2>>)
    /\ patterns.description = FluctuationSentence

\* The name of the weekday of a date string (day 1 is Monday 2024-01-01).
WeekdayName(date) ==
    LET day == (date - 1) % 7
    IN  CASE day = 0 -> "Monday"
          [] day = 1 -> "Tuesday"
          [] day = 2 -> "Wednesday"
          [] day = 3 -> "Thursday"
          [] day = 4 -> "Friday"
          [] day = 5 -> "Saturday"
          [] OTHER -> "Sunday"

\* The rows whose date falls on a weekday.
RowsOn(name) == {i \in 1..Len(Records) : WeekdayName(Records[i].date) = name}

\* The only row of a set of one row.
TheRow(rows) == CHOOSE i \in rows : TRUE

\* C17 as claimed: the sentiment of PatternDetector for a record is the
\* number of positive lexicon words found minus the number of negative
\* ones; it is the average_sentiment of a weekday that holds this record
\* alone.
C17_SubtractionCount ==
    Ran("pattern") =>
        \A name \in DOMAIN patterns.day_of_week_patterns :
            Cardinality(RowsOn(name)) = 1 =>
                patterns.day_of_week_patterns[name].average_sentiment =
                    100 * (PosFound(TheRow(RowsOn(name)))
                               - NegFound(TheRow(RowsOn(name))))

\* C17 as amended: the sentiment of PatternDetector for a record is the
\* difference of the two counts divided by their sum, and 0 when no
\* lexicon word is found.
C17_NormalisedDifference ==
    Ran("pattern") =>
        \A name \in DOMAIN patterns.day_of_week_patterns :
            Cardinality(RowsOn(name)) = 1 =>
                LET i     == TheRow(RowsOn(name))
                    total == PosFound(i) + NegFound(i)
                    avg   == patterns.day_of_week_patterns[name].average_sentiment
                IN  IF total > 0
                    THEN avg * total = 100 * (PosFound(i) - NegFound(i))
                    ELSE avg = 0

\* A record with two negative words and no positive one stands alone on
\* its weekday: the average sentiment of the day is -1.00.
C17_Witness ==
    /\ Ran("pattern")
    /\ \E name \in DOMAIN patterns.day_of_week_patterns :
           /\ Cardinality(RowsOn(name)) = 1
           /\ NegFound(TheRow(RowsOn(name))) = 2
           /\ PosFound(TheRow(RowsOn(name))) = 0
           /\ patterns.day_of_week_patterns[name].average_sentiment = -100

\* The sign of the mean sentiment of the records of a weekday.
SignOn(name) ==
    LET rows == SelectSeq([i \in 1..Len(Records) |-> i],
                          LAMBDA i : WeekdayName(Records[i].date) = name)
    IN  RSign(RSum([j \in 1..Len(rows) |-> Proxy(rows[j])]))

\* C18: day_of_week_patterns has a key for a weekday name exactly when
\* the date of some record falls on that weekday, and the trend of the
\* entry is 'positive', 'negative' or 'neutral' as the mean sentiment of
\* the weekday is above, below or equal to 0.
C18_WeekdaysPresentOnly ==
    Ran("pattern") =>
        /\ DOMAIN patterns.day_of_week_patterns =
               {WeekdayName(Records[i].date) : i \in 1..Len(Records)}
        /\ \A name \in DOMAIN patterns.day_of_week_patterns :
               LET sign == SignOn(name)
               IN  patterns.day_of_week_patterns[name].trend =
                       CASE sign > 0 -> "positive"
                         [] sign < 0 -> "negative"
                         [] OTHER -> "neutral"

\* The records fall on a Sunday and on two Mondays: Sunday is positive,
\* Monday, with a positive and a negative record, is neutral, and no other
\* weekday is present.
C18_Witness ==
    /\ Ran("pattern")
    /\ DOMAIN patterns.day_of_week_patterns = {"Monday", "Sunday"}
    /\ Cardinality(RowsOn("Monday")) = 2
    /\ \E i \in RowsOn("Monday") : PosFound(i) = 1
    /\ patterns.day_of_week_patterns["Monday"].trend = "neutral"
    /\ patterns.day_of_week_patterns["Sunday"].trend = "positive"

\* The rows of a cluster, and the sum over them of n times the distance
\* of the embedding to the mean of the cluster (n the size of the cluster):
\* n * n times the mean distance of the members to their centroid.
RowsOfCluster(cluster_id) ==
    {i \in 1..Len(Records) : Records[i].cluster = cluster_id}

ScaledDistance(cluster_id) ==
    LET rows == RowsOfCluster(cluster_id)
        n    == Cardinality(rows)
        RECURSIVE Total(_, _)
        Total(set, weight) ==
            IF set = {} THEN 0
            ELSE LET i == CHOOSE x \in set : TRUE
                 IN  (IF weight THEN Abs(n * Records[i].embedding
                                           - Total(rows, FALSE))
                      ELSE Records[i].embedding)
                     + Total(set \ {i}, weight)
    IN  Total(rows, TRUE)

\* C19 as claimed: every theme has a cluster_confidence (in hundredths)
\* strictly above 0 and at most 1, and exactly 1 for a cluster with one
\* member.
C19_ConfidenceInUnitInterval ==
    Ran("cluster") =>
        \A t \in 1..Len(themes) :
            /\ themes[t].cluster_confidence > 0
            /\ themes[t].cluster_confidence <= 100
            /\ themes[t].entry_count = 1 => themes[t].cluster_confidence = 100

\* C19 as amended: the cluster_confidence of a theme is 0.0 for a cluster
\* without members and otherwise exp(-x) rounded to two decimals, x half
\* the mean distance of the members to their centroid, which lies between
\* 1 - x and 1 / (1 + x): at most 1, above 0 while x is below 5, and
\* exactly 1 for a cluster with one member.
C19_ConfidenceOfMembers ==
    Ran("cluster") =>
        \A t \in 1..Len(themes) :
            LET conf == themes[t].cluster_confidence
                n    == Cardinality(RowsOfCluster(themes[t].cluster_id))
                num  == ScaledDistance(themes[t].cluster_id)
                den  == 2 * n * n
            IN  /\ n = themes[t].entry_count
                /\ conf >= 0
                /\ conf <= 100
                /\ n = 0 => conf = 0
                /\ n = 1 => conf = 100
                /\ n >= 1 =>
                       /\ 2 * conf * den + den >= 200 * (den - num)
                       /\ (2 * conf - 1) * (den + num) <= 200 * den
                       /\ num < 5 * den => conf > 0

\* Two or more records with the same embedding and two clusters: one
\* cluster holds every record at distance 0 and has confidence 1.0, the
\* other has no member and confidence 0.0.
C19_Witness ==
    /\ Ran("cluster")
    /\ Len(Records) >= 2
    /\ \A i, j \in 1..Len(Records) : Records[i].embedding = Records[j].embedding
    /\ \E t \in 1..Len(themes) :
           themes[t].entry_count = 0 /\ themes[t].cluster_confidence = 0
    /\ \E t \in 1..Len(themes) :
           /\ themes[t].entry_count = Len(Records)
           /\ themes[t].cluster_confidence = 100

\* C20: from load_data on the records are in ascending date order, each
\* entry of the file exactly once, and the processed list keeps the ids
\* and dates of the loaded list at the same positions through every stage,
\* one embedding row per record.
C20_RecordsStayInDateOrder ==
    /\ Ran("load") =>
           /\ Len(data) = Len(file)
           /\ {data[i].entry_id : i \in 1..Len(data)}
                  = {file[i].entry_id : i \in 1..Len(file)}
           /\ \A i, j \in 1..Len(data) :
                  i < j => /\ data[i].date <= data[j].date
                           /\ data[i].entry_id # data[j].entry_id
    /\ Ran("embed") =>
           /\ Len(processed_data) = Len(data)
           /\ Len(embeddings) = Len(data)
           /\ \A i \in 1..Len(data) :
                  /\ processed_data[i].entry_id = data[i].entry_id
                  /\ processed_data[i].date = data[i].date
                  /\ embeddings[i] = processed_data[i].embedding

\* The file is not in date order, the records have been spread over two
\* clusters, and the run has completed with the processed list in date
\* order.
C20_Witness ==
    /\ pc = "done"
    /\ Len(file) = 3
    /\ file[1].date > file[3].date
    /\ processed_data[1].entry_id = 3
    /\ processed_data[1].cluster # processed_data[2].cluster
    /\ processed_data[1].cluster > processed_data[3].cluster

-----------------------------------------------------------------------------
(* Themes and cluster ids after ThemeClusterer *)

\* The cluster ids of the records, in list order.
ClusterIds(entries) == [i \in 1..Len(entries) |-> entries[i].cluster]

\* C21: once ThemeClusterer.fit_predict has returned, no later stage
\* changes the cluster id of a record or a field of a theme: every step
\* taken after the clustering leaves the themes and the cluster ids of the
\* records as they are.
C21_ThemesAndClustersFrozen ==
    [][Ran("cluster") =>
           /\ themes' = themes
           /\ ClusterIds(processed_data') = ClusterIds(processed_data)]_vars

\* TemporalAnalyzer, AnomalyDetector and PatternDetector have run over
\* three records of two clusters; the records carry their weeks and the
\* themes are still the two of the clustering.
C21_Witness ==
    /\ Ran("temporal") /\ Ran("anomaly") /\ Ran("pattern")
    /\ Len(themes) = 2
    /\ Len(processed_data) = 3
    /\ \E i, j \in 1..3 : /\ processed_data[i].cluster = 0
                          /\ processed_data[j].cluster = 1
                          /\ processed_data[j].week = 2

-----------------------------------------------------------------------------
(* Theme labels *)

\* The members of a cluster, in list order, and the keywords
\* _extract_theme extracts from them.
MembersOf(cluster_id) == SelectSeq(Records, LAMBDA e : e.cluster = cluster_id)

KeywordsOf(cluster_id) == _extract_keywords(MembersOf(cluster_id))

\* How many of the keywords are in the word list of a category.
CategoryScore(category, keywords) ==
    Cardinality({j \in 1..Len(keywords) :
                    keywords[j] \in theme_keywords[category].words})

\* The first two keywords, title-cased and joined by a blank; a list of
\* one keyword gives that keyword alone and an empty list the empty label.
FallbackLabel(keywords) ==
    CASE Len(keywords) >= 2 ->
             Title(keywords[1]) \o " " \o Title(keywords[2])
      [] Len(keywords) = 1 -> Title(keywords[1])
      [] OTHER -> ""

\* C22: the label of a theme is the category of theme_keywords with the
\* highest count of the cluster's keywords in its word list; of several
\* categories at the highest nonzero count the first in the order Work
\* Performance, Social Connection, Rest & Recovery, Health & Wellness,
\* Personal Growth, Leisure & Recreation wins; when every category counts
\* 0 the label is the two most frequent keywords, title-cased and joined
\* by a blank.
C22_LabelByCategoryScore ==
    Ran("cluster") =>
        \A t \in 1..Len(themes) :
            LET keywords   == KeywordsOf(themes[t].cluster_id)
                categories == 1..Len(theme_keywords)
                scores     == [c \in categories |-> CategoryScore(c, keywords)]
                leaders    == {c \in categories :
                                  \A d \in categories : scores[d] <= scores[c]}
                first      == CHOOSE c \in leaders : \A d \in leaders : c <= d
            IN  /\ [c \in categories |-> theme_keywords[c].theme]
                       = <<"Work Performance", "Social Connection",
                           "Rest & Recovery", "Health & Wellness",
                           "Personal Growth", "Leisure & Recreation">>
                /\ themes[t].theme_label
                       = IF scores[first] > 0 THEN theme_keywords[first].theme
                         ELSE FallbackLabel(keywords)

\* Two themes: in one, Work Performance and Social Connection both count
\* one keyword and the most frequent keyword is a Social Connection word,
\* and the label is Work Performance; in the other no category counts a
\* keyword and the label is the two keywords, the more frequent first.
C22_Witness ==
    /\ Ran("cluster")
    /\ Len(themes) = 2
    /\ \E t, u \in 1..2 :
           /\ KeywordsOf(themes[t].cluster_id) = <<"friends", "work">>
           /\ themes[t].theme_label = "Work Performance"
           /\ KeywordsOf(themes[u].cluster_id) = <<"stress", "good">>
           /\ themes[u].theme_label = "Stress Good"

-----------------------------------------------------------------------------
(* Representative entries *)

\* The row of the record with an entry id; the ids of the input file are
\* distinct.
RowOfId(id) == CHOOSE i \in 1..Len(Records) : Records[i].entry_id = id

\* The distance of the embedding of a row to the centroid of a cluster,
\* the mean of its members, times the number of members.
DistanceToCentroid(i, cluster_id) ==
    LET rows == RowsOfCluster(cluster_id)
        RECURSIVE Total(_)
        Total(set) ==
            IF set = {} THEN 0
            ELSE LET j == CHOOSE x \in set : TRUE
                 IN  Records[j].embedding + Total(set \ {j})
    IN  Abs(Cardinality(rows) * Records[i].embedding - Total(rows))

\* Row i comes before row j among the members of a cluster: it is nearer
\* to the centroid, or as near and earlier in the date-ascending list.
NearerOrEarlier(i, j, cluster_id) ==
    LET di == DistanceToCentroid(i, cluster_id)
        dj == DistanceToCentroid(j, cluster_id)
    IN  di < dj \/ (di = dj /\ i < j)

\* C23: the representative_entries of a theme are the ids of the
\* min(3, member count) members of its cluster nearest to the centroid,
\* nearest first, members at equal distance in the order of their place in
\* the date-ascending list; every listed id is the id of a member of the
\* cluster and no id is listed twice.
C23_NearestThreeMembers ==
    Ran("cluster") =>
        \A t \in 1..Len(themes) :
            LET cluster_id == themes[t].cluster_id
                members    == RowsOfCluster(cluster_id)
                reps       == themes[t].representative_entries
                listed     == {RowOfId(reps[j]) : j \in 1..Len(reps)}
            IN  /\ Len(reps) = IF Cardinality(members) < 3
                               THEN Cardinality(members) ELSE 3
                /\ \A j \in 1..Len(reps) :
                       \E i \in members : Records[i].entry_id = reps[j]
                /\ \A j, k \in 1..Len(reps) : j # k => reps[j] # reps[k]
                /\ \A j, k \in 1..Len(reps) :
                       j < k => NearerOrEarlier(RowOfId(reps[j]),
                                                RowOfId(reps[k]), cluster_id)
                /\ \A i \in members \ listed :
                       \A l \in listed : NearerOrEarlier(l, i, cluster_id)

\* A theme of four members lists three of them: the member left out is
\* the first of the list, and two of the listed are equally near to the
\* centroid.
C23_Witness ==
    /\ Ran("cluster")
    /\ \E t \in 1..Len(themes) :
           LET cluster_id == themes[t].cluster_id
               reps       == themes[t].representative_entries
           IN  /\ themes[t].entry_count = 4
               /\ Len(reps) = 3
               /\ Records[1].cluster = cluster_id
               /\ \A j \in 1..3 : RowOfId(reps[j]) # 1
               /\ DistanceToCentroid(RowOfId(reps[2]), cluster_id)
                      = DistanceToCentroid(RowOfId(reps[3]), cluster_id)
               /\ DistanceToCentroid(RowOfId(reps[1]), cluster_id)
                      < DistanceToCentroid(RowOfId(reps[2]), cluster_id)

-----------------------------------------------------------------------------
(* The weekly summaries partition the records *)

\* The sum of entry_count over the first n weekly summaries.
RECURSIVE EntryCountUpTo(_)
EntryCountUpTo(n) ==
    IF n = 0 THEN 0 ELSE Summaries[n].entry_count + EntryCountUpTo(n - 1)

\* The weekly summaries that carry the week number of a record.
SummariesOf(i) == {w \in 1..Len(Summaries) : Summaries[w].week = Records[i].week}

\* C24: TemporalAnalyzer.analyze partitions the records by week: every
\* record is counted in exactly one weekly summary, the entry_count of a
\* summary is the number of records of its week, so the entry_count of
\* all summaries add up to the number of records; week 1 is always
\* present; and total_weeks is the number of summaries.
C24_SummariesPartitionRecords ==
    Ran("temporal") =>
        /\ \A i \in 1..Len(Records) : Cardinality(SummariesOf(i)) = 1
        /\ \A w \in 1..Len(Summaries) :
               Summaries[w].entry_count
                   = Cardinality({i \in 1..Len(Records) :
                                     Records[i].week = Summaries[w].week})
        /\ EntryCountUpTo(Len(Summaries)) = Len(Records)
        /\ \E w \in 1..Len(Summaries) : Summaries[w].week = 1
        /\ temporal_data.total_weeks = Len(Summaries)

\* Three records in weeks 1 and 3: two summaries, of two records and of
\* one, and total_weeks is 2.
C24_Witness ==
    /\ Ran("temporal")
    /\ Len(Records) = 3
    /\ {Records[i].week : i \in 1..3} = {1, 3}
    /\ Len(Summaries) = 2
    /\ Summaries[1].week = 1 /\ Summaries[1].entry_count = 2
    /\ Summaries[2].week = 3 /\ Summaries[2].entry_count = 1
    /\ temporal_data.total_weeks = 2

=============================================================================
